---- MODULE Spec2Model ----
(***************************************************************************)
(* Region geometry engine of pdf-photo-carousel: the DrawingCanvas         *)
(* component (draw / drag / resize / snap) and the Editor page that owns   *)
(* the region list and reconciles it with the persisted regions on save.   *)
(*                                                                         *)
(* Numbers.  Stored (authoring) coordinates are integers.  A display-space *)
(* number d is carried as the integer d * originalPdfWidth, so that both   *)
(* conversions are exact:  stored * (pdfWidth / originalPdfWidth) is       *)
(* stored * pdfWidth, and display * (originalPdfWidth / pdfWidth) is an    *)
(* integer division by pdfWidth that leaves no remainder for the page      *)
(* sizes of PageSizes (pdfWidth divides originalPdfWidth).                 *)
(***************************************************************************)
EXTENDS Integers, Sequences, FiniteSets, TLC

\* ------------------------------------------------------------------ bounds

\* Events (pointer events, button clicks, re-measurements) in one behaviour.
MaxSteps == 8
\* handleSaveRegions invocations in flight at once.
MaxSaves == 1

\* ------------------------------------------------------- program constants

originalPdfWidth == 794
SNAP_THRESHOLD == 10
MinSize == 20

\* Rendered page sizes (pdfDimensions once measured): full width and a
\* narrow viewport, same aspect ratio.
PageSizes == { [width |-> 794, height |-> 1000], [width |-> 397, height |-> 500] }

\* Pointer positions (clientX, clientY) relative to the canvas corner.
Points == { <<100, 100>>, <<390, 250>>, <<790, 250>>, <<794, 100>> }

ResizeHandles == {"nw", "n", "ne", "e", "se", "s", "sw", "w"}

\* ----------------------------------------------------------------- helpers

None == <<>>
Some(v) == <<v>>
The(o) == o[1]

Abs(n) == IF n < 0 THEN -n ELSE n
Min(a, b) == IF a < b THEN a ELSE b
Max(a, b) == IF a > b THEN a ELSE b

\* A bare number read as a display-space number.
Disp(n) == n * originalPdfWidth

VARIABLES
  regions,        \* Editor: Region[] in authoring space
  isDrawing,      \* Editor: draw mode
  pdfDimensions,  \* Editor: measured page size
  currentRegion,  \* canvas: start point of the draw in progress
  tempRegion,     \* canvas: candidate rectangle (display space)
  selectedId,     \* canvas: selected region
  dragStart,      \* canvas: drag in progress
  resizeHandle,   \* canvas: resize in progress
  snapEnabled,    \* canvas: snap toggle
  clock,          \* Date.now(), one tick per committed draw
  mouseDown,      \* environment: the mouse button is held
  db,             \* persistence: rows of the regions table of the project
  nextDbId,       \* persistence: next id the table assigns
  saves,          \* Editor: handleSaveRegions invocations in flight
  loads,          \* Editor: loadRegions invocations in flight
  steps,          \* events handled so far
  snapCall,       \* the last direct call of applySnap (SnapSpec)
  convCall,       \* the last direct round trip of the conversions (ConvSpec)
  view,           \* PublicView: scale, panOffset and the touch refs
  touches,        \* environment: the touch points down on the viewer, the time
  selectedRegion, \* Editor: the region selected in the RegionManager list
  project,        \* Editor: the project row, None until loadProject resolves
  hasUnsavedChanges \* Editor: the published project has changes to republish

canvasVars == << currentRegion, tempRegion, selectedId, dragStart, resizeHandle,
                 snapEnabled, clock, mouseDown >>
storeVars == << db, nextDbId, saves, loads >>

viewVars == << view, touches >>

editorVars == << selectedRegion, project, hasUnsavedChanges >>

vars == << regions, isDrawing, pdfDimensions, canvasVars, storeVars, steps, snapCall,
          convCall, viewVars, editorVars >>

\* Editor: useEffect(() => { if (project?.published) setHasUnsavedChanges(true) },
\* [regions]); it runs after a render in which setRegions stored a new array.
UnsavedChangesEffect(called) ==
  hasUnsavedChanges' = IF called /\ project # None /\ The(project).published
                       THEN TRUE ELSE hasUnsavedChanges

\* onRegionsChange={setRegions}: the canvas hands a new list to the Editor
\* (called), or leaves the Editor alone
onRegionsChange(called) ==
  UnsavedChangesEffect(called) /\ UNCHANGED << selectedRegion, project >>

pdfWidth == pdfDimensions.width
pdfHeight == pdfDimensions.height

\* a display value taken for an authoring value as it stands (no scaling)
displayToStoredUnscaled(d) == d \div originalPdfWidth

\* const displayToStored = originalPdfWidth / pdfWidth, applied to d; the
\* CHOOSE has no value (and TLC stops) should the division leave a remainder
displayToStored(d) == CHOOSE v \in { d \div pdfWidth } : v * pdfWidth = d
\* const storedToDisplay = pdfWidth / originalPdfWidth, applied to v
storedToDisplay(v) == v * pdfWidth
\* originalPdfWidth * (pdfHeight / pdfWidth)
authoringHeight == (originalPdfWidth * pdfHeight) \div pdfWidth

\* ----------------------------------------------------------- SnapResolver

Close(value, target) == Abs(value - target) < Disp(SNAP_THRESHOLD)

\* applySnap scanning the targets from the last to the first
SnapScanLast(value, targets, i) ==
  IF \E k \in i..Len(targets) : Close(value, targets[k])
  THEN targets[CHOOSE k \in i..Len(targets) :
                 /\ Close(value, targets[k])
                 /\ \A j \in (k + 1)..Len(targets) : ~Close(value, targets[j])]
  ELSE value

\* applySnap returning the nearest target within the threshold
SnapScanNearest(value, targets, i) ==
  IF \E k \in i..Len(targets) : Close(value, targets[k])
  THEN targets[CHOOSE k \in i..Len(targets) :
                 /\ Close(value, targets[k])
                 /\ \A j \in i..Len(targets) :
                      Abs(value - targets[k]) <= Abs(value - targets[j])]
  ELSE value

RECURSIVE SnapScan(_, _, _)
SnapScan(value, targets, i) ==
  IF i > Len(targets) THEN value
  ELSE IF Abs(value - targets[i]) < Disp(SNAP_THRESHOLD) THEN targets[i]
  ELSE SnapScan(value, targets, i + 1)

\* applySnap without the snapEnabled test
applySnapAlways(value, targets) == SnapScan(value, targets, 1)

applySnap(value, targets) ==
  IF ~snapEnabled THEN value ELSE SnapScan(value, targets, 1)

RECURSIVE EdgeTargets(_, _, _, _)
\* regions.forEach: push r[pos], r[pos] + r[size] of every region but excludeId
EdgeTargets(rs, excludeId, pos, size) ==
  IF rs = <<>> THEN <<>>
  ELSE (IF Some(Head(rs).id) # excludeId
        THEN << Disp(Head(rs)[pos]), Disp(Head(rs)[pos] + Head(rs)[size]) >>
        ELSE <<>>) \o EdgeTargets(Tail(rs), excludeId, pos, size)

RECURSIVE SizeTargets(_, _, _)
SizeTargets(rs, excludeId, size) ==
  IF rs = <<>> THEN <<>>
  ELSE (IF Some(Head(rs).id) # excludeId THEN << Disp(Head(rs)[size]) >> ELSE <<>>)
       \o SizeTargets(Tail(rs), excludeId, size)

\* excludeId is None when the argument is omitted
getSnapTargets(excludeId) ==
  [ x      |-> << Disp(0), Disp(pdfWidth) >> \o EdgeTargets(regions, excludeId, "x", "width"),
    y      |-> << Disp(0), Disp(pdfHeight) >> \o EdgeTargets(regions, excludeId, "y", "height"),
    width  |-> SizeTargets(regions, excludeId, "width"),
    height |-> SizeTargets(regions, excludeId, "height") ]

\* ----------------------------------------------------------- DrawingCanvas

\* the canvas mounted whatever the measured width
CanvasMountedAlways == TRUE

\* Editor render: {pdfDimensions.width > 0 && <DrawingCanvas ... />}
CanvasMounted == pdfWidth > 0

\* pointerEvents: isDrawing || regions.length > 0 ? 'auto' : 'none'
CanvasActive == CanvasMounted /\ (isDrawing \/ Len(regions) > 0)

InPage(p) == p[1] >= 0 /\ p[1] <= pdfWidth /\ p[2] >= 0 /\ p[2] <= pdfHeight

HasRegion(id) == \E i \in 1..Len(regions) : regions[i].id = id

\* handleMouseDown: { startX: x, startY: y } for the pointer position p
StartOf(p) == [startX |-> Disp(p[1]), startY |-> Disp(p[2])]

\* handleMouseDown without its draw-mode guard
MouseDownCurrentAlways(p) == Some(StartOf(p))

\* handleMouseDown: the state after the handler
MouseDownCurrent(p) ==
  IF isDrawing THEN Some(StartOf(p))
  ELSE currentRegion

\* mousedown on empty canvas space
CanvasMouseDown(p) ==
  /\ CanvasActive /\ ~mouseDown /\ InPage(p)
  /\ mouseDown' = TRUE
  /\ currentRegion' = MouseDownCurrent(p)
  /\ UNCHANGED storeVars
  /\ onRegionsChange(FALSE)
  /\ UNCHANGED << regions, isDrawing, pdfDimensions, tempRegion, selectedId,
                  dragStart, resizeHandle, snapEnabled, clock >>

RegionById(id) == regions[CHOOSE i \in 1..Len(regions) : regions[i].id = id]

\* a region rendered at its stored numbers, with no scaling
RenderedRectUnscaled(r) ==
  [ left |-> Disp(r.x), top |-> Disp(r.y),
    width |-> Disp(r.width), height |-> Disp(r.height) ]

\* regions.map in the render of the canvas: the style of a region's rectangle
RenderedRect(r) ==
  [ left |-> storedToDisplay(r.x), top |-> storedToDisplay(r.y),
    width |-> storedToDisplay(r.width), height |-> storedToDisplay(r.height) ]

\* InteractiveRegions (the viewer) at display width w: scaleFactor =
\* pdfWidth / originalPdfWidth applied to the four fields
InteractiveRegionRect(r, w) ==
  [ left |-> r.x * w, top |-> r.y * w, width |-> r.width * w, height |-> r.height * w ]

\* Where the pointer grabs a region: the corner of its rendered rectangle
\* (left: displayX, top: displayY), in display space.
GrabPoint(r) == << storedToDisplay(r.x), storedToDisplay(r.y) >>

\* Where the pointer grabs a resize handle: the corner or edge of the rendered
\* rectangle the handle sits on, in display space.
HandlePoint(r, handle) ==
  << storedToDisplay(IF handle \in {"ne", "e", "se"} THEN r.x + r.width ELSE r.x),
     storedToDisplay(IF handle \in {"se", "s", "sw"} THEN r.y + r.height ELSE r.y) >>

\* mousedown on a region body: handleRegionMouseDown; in draw mode it
\* returns without stopPropagation and the container's handleMouseDown runs
RegionMouseDown(id) ==
  /\ CanvasActive /\ ~mouseDown /\ HasRegion(id)
  /\ mouseDown' = TRUE
  /\ LET g == GrabPoint(RegionById(id)) IN
     IF isDrawing
     THEN /\ currentRegion' = Some([startX |-> g[1], startY |-> g[2]])
          /\ UNCHANGED << selectedId, dragStart >>
     ELSE /\ selectedId' = Some(id)
          /\ dragStart' = Some([x |-> g[1], y |-> g[2], regionId |-> id])
          /\ UNCHANGED currentRegion
  /\ UNCHANGED storeVars
  /\ onRegionsChange(FALSE)
  /\ UNCHANGED << regions, isDrawing, pdfDimensions, tempRegion, resizeHandle,
                  snapEnabled, clock >>

\* mousedown on a resize handle (rendered for the selected region only):
\* handleResizeStart
ResizeStart(id, handle) ==
  /\ CanvasActive /\ ~mouseDown
  /\ selectedId = Some(id) /\ HasRegion(id)
  /\ mouseDown' = TRUE
  /\ selectedId' = Some(id)
  /\ LET g == HandlePoint(RegionById(id), handle) IN
     resizeHandle' = Some([handle |-> handle, regionId |-> id,
                           startX |-> g[1], startY |-> g[2],
                           originalRegion |-> RegionById(id)])
  /\ UNCHANGED storeVars
  /\ onRegionsChange(FALSE)
  /\ UNCHANGED << regions, isDrawing, pdfDimensions, currentRegion, tempRegion,
                  dragStart, snapEnabled, clock >>

\* handleMouseMove without the normalisation: the rectangle from the start
\* point to the current point, signed
TempOfSigned(c, p) ==
  [ x      |-> c.startX,
    y      |-> c.startY,
    width  |-> Disp(p[1]) - c.startX,
    height |-> Disp(p[2]) - c.startY ]

\* handleMouseMove: the rectangle spanned by the start point c and the
\* pointer position p
TempOf(c, p) ==
  [ x      |-> Min(c.startX, Disp(p[1])),
    y      |-> Min(c.startY, Disp(p[2])),
    width  |-> Abs(Disp(p[1]) - c.startX),
    height |-> Abs(Disp(p[2]) - c.startY) ]

\* handleMouseMove: the candidate rectangle after the handler
MoveTemp(p) ==
  IF currentRegion = None THEN tempRegion
  ELSE Some(TempOf(The(currentRegion), p))

\* handleResize: the rectangle computed for the resized region
ResizeSwitch(orig, handle, deltaX, deltaY) ==
  CASE handle = "nw" -> [orig EXCEPT !.x = orig.x + deltaX, !.y = orig.y + deltaY,
                                     !.width = orig.width - deltaX,
                                     !.height = orig.height - deltaY]
    [] handle = "n"  -> [orig EXCEPT !.y = orig.y + deltaY,
                                     !.height = orig.height - deltaY]
    [] handle = "ne" -> [orig EXCEPT !.y = orig.y + deltaY,
                                     !.width = orig.width + deltaX,
                                     !.height = orig.height - deltaY]
    [] handle = "e"  -> [orig EXCEPT !.width = orig.width + deltaX]
    [] handle = "se" -> [orig EXCEPT !.width = orig.width + deltaX,
                                     !.height = orig.height + deltaY]
    [] handle = "s"  -> [orig EXCEPT !.height = orig.height + deltaY]
    [] handle = "sw" -> [orig EXCEPT !.x = orig.x + deltaX,
                                     !.width = orig.width - deltaX,
                                     !.height = orig.height + deltaY]
    [] handle = "w"  -> [orig EXCEPT !.x = orig.x + deltaX,
                                     !.width = orig.width - deltaX]

ResizeSnap(r, targets) ==
  LET x1 == Max(0, displayToStored(applySnap(storedToDisplay(r.x), targets.x)))
      y1 == Max(0, displayToStored(applySnap(storedToDisplay(r.y), targets.y)))
      rightEdge == storedToDisplay(x1 + r.width)
      bottomEdge == storedToDisplay(y1 + r.height)
      snappedRight == applySnap(rightEdge, targets.x)
      snappedBottom == applySnap(bottomEdge, targets.y)
  IN [r EXCEPT !.x = x1, !.y = y1,
               !.width = IF snappedRight # rightEdge
                         THEN displayToStored(snappedRight) - x1 ELSE r.width,
               !.height = IF snappedBottom # bottomEdge
                          THEN displayToStored(snappedBottom) - y1 ELSE r.height]

\* handleResize without the minimum-size floor
ResizeConstrainNoFloor(r) ==
  LET floor == displayToStored(Disp(MinSize))
      x2 == Min(originalPdfWidth - floor, r.x)
      y2 == Min(authoringHeight - floor, r.y)
  IN [r EXCEPT !.x = x2, !.y = y2,
               !.width = Min(originalPdfWidth - x2, r.width),
               !.height = Min(authoringHeight - y2, r.height)]

ResizeConstrain(r) ==
  LET floor == displayToStored(Disp(MinSize))
      x2 == Min(originalPdfWidth - floor, r.x)
      y2 == Min(authoringHeight - floor, r.y)
  IN [r EXCEPT !.x = x2, !.y = y2,
               !.width = Max(floor, Min(originalPdfWidth - x2, r.width)),
               !.height = Max(floor, Min(authoringHeight - y2, r.height))]

\* a resize computed from the region's current rectangle instead of the
\* captured one
ResizedRegionIncremental(p) ==
  LET h == The(resizeHandle)
      deltaX == displayToStored(Disp(p[1]) - h.startX)
      deltaY == displayToStored(Disp(p[2]) - h.startY)
  IN ResizeConstrain(ResizeSnap(ResizeSwitch(RegionById(h.regionId), h.handle, deltaX, deltaY),
                                getSnapTargets(Some(h.regionId))))

\* handleResize: the new rectangle of the resized region for the pointer at p
ResizedRegion(p) ==
  LET h == The(resizeHandle)
      deltaX == displayToStored(Disp(p[1]) - h.startX)
      deltaY == displayToStored(Disp(p[2]) - h.startY)
  IN ResizeConstrain(ResizeSnap(ResizeSwitch(h.originalRegion, h.handle, deltaX, deltaY),
                                getSnapTargets(Some(h.regionId))))

handleResize(p) ==
  LET newRegion == ResizedRegion(p) IN
  regions' = [i \in 1..Len(regions) |->
                IF regions[i].id = The(resizeHandle).regionId THEN newRegion
                ELSE regions[i]]

\* a drag that crops the region at the page edges instead of stopping it
DraggedRegionCropped(r, p) ==
  LET d == The(dragStart)
      newX == Max(0, r.x + displayToStored(Disp(p[1]) - d.x))
      newY == Max(0, r.y + displayToStored(Disp(p[2]) - d.y))
  IN [r EXCEPT !.x = newX, !.y = newY,
               !.width = Min(r.width, originalPdfWidth - newX),
               !.height = Min(r.height, authoringHeight - newY)]

\* handleRegionDrag: the dragged region after the move
DraggedRegion(r, p) ==
  LET d == The(dragStart)
      deltaX == displayToStored(Disp(p[1]) - d.x)
      deltaY == displayToStored(Disp(p[2]) - d.y)
      targets == getSnapTargets(Some(d.regionId))
      newX == r.x + deltaX
      newY == r.y + deltaY
  IN [r EXCEPT
        !.x = Max(0, Min(originalPdfWidth - r.width,
                         displayToStored(applySnap(storedToDisplay(newX), targets.x)))),
        !.y = Max(0, Min(authoringHeight - r.height,
                         displayToStored(applySnap(storedToDisplay(newY), targets.y))))]

\* a drag that keeps the pointer position of the gesture's start
DragStartKept(p) == dragStart

\* handleRegionDrag: setDragStart({ ...dragStart, x: e.clientX, y: e.clientY })
DragStartAfter(p) == Some([The(dragStart) EXCEPT !.x = Disp(p[1]), !.y = Disp(p[2])])

handleRegionDrag(p) ==
  /\ regions' = [i \in 1..Len(regions) |->
                   IF regions[i].id = The(dragStart).regionId
                   THEN DraggedRegion(regions[i], p) ELSE regions[i]]
  /\ dragStart' = DragStartAfter(p)

\* One mousemove event: the container's onMouseMove when the pointer is over
\* the canvas, and the window listener registered while dragStart or
\* resizeHandle is set (moveHandler = resizeHandle ? handleResize : handleRegionDrag).
MouseMove(p) ==
  /\ CanvasMounted
  /\ tempRegion' = IF CanvasActive /\ InPage(p) THEN MoveTemp(p) ELSE tempRegion
  /\ IF resizeHandle # None
     THEN /\ handleResize(p)
          /\ UNCHANGED dragStart
     ELSE IF dragStart # None
     THEN handleRegionDrag(p)
     ELSE UNCHANGED << regions, dragStart >>
  /\ UNCHANGED storeVars
  /\ onRegionsChange(resizeHandle # None \/ dragStart # None)
  /\ UNCHANGED << isDrawing, pdfDimensions, currentRegion, selectedId,
                  resizeHandle, snapEnabled, clock, mouseDown >>

\* handleMouseUp: the region committed for the candidate rectangle t
NewRegionOf(t) ==
  LET targets == getSnapTargets(None)
      snappedX == applySnap(t.x, targets.x)
      snappedY == applySnap(t.y, targets.y)
      snappedWidth == applySnap(t.width, targets.width)
      snappedHeight == applySnap(t.height, targets.height)
  IN [ id |-> << "temp", clock >>,
       x |-> displayToStored(snappedX),
       y |-> displayToStored(snappedY),
       width |-> displayToStored(IF snappedWidth # 0 THEN snappedWidth ELSE t.width),
       height |-> displayToStored(IF snappedHeight # 0 THEN snappedHeight ELSE t.height),
       page_number |-> 1,
       order_index |-> Len(regions) ]

NewRegion == NewRegionOf(The(tempRegion))

\* One mouseup event: the container's onMouseUp (handleMouseUp) when the
\* release is over the canvas, and the window listener (handleRegionDragEnd)
\* registered while dragStart or resizeHandle is set.
MouseUp(over) ==
  /\ CanvasMounted /\ mouseDown
  /\ over => CanvasActive
  /\ mouseDown' = FALSE
  /\ IF over
     THEN /\ IF tempRegion # None /\ currentRegion # None
             THEN /\ regions' = Append(regions, NewRegion)
                  /\ clock' = clock + 1
             ELSE UNCHANGED << regions, clock >>
          /\ currentRegion' = None
          /\ tempRegion' = None
     ELSE UNCHANGED << regions, clock, currentRegion, tempRegion >>
  /\ IF dragStart # None \/ resizeHandle # None
     THEN dragStart' = None /\ resizeHandle' = None
     ELSE UNCHANGED << dragStart, resizeHandle >>
  /\ UNCHANGED storeVars
  /\ onRegionsChange(over /\ tempRegion # None /\ currentRegion # None)
  /\ UNCHANGED << isDrawing, pdfDimensions, selectedId, snapEnabled >>

\* the filtered list renumbered 0, 1, 2, ... in order_index
RegionsWithoutCompacted(id) ==
  LET rest == SelectSeq(regions, LAMBDA r : r.id # id)
  IN [k \in 1..Len(rest) |-> [rest[k] EXCEPT !.order_index = k - 1]]

\* handleDeleteRegion: regions.filter(r => r.id !== regionId)
RegionsWithout(id) == SelectSeq(regions, LAMBDA r : r.id # id)

\* click on the delete button of the selected region: handleDeleteRegion
DeleteRegion(id) ==
  /\ CanvasActive /\ ~mouseDown
  /\ selectedId = Some(id) /\ HasRegion(id)
  /\ regions' = RegionsWithout(id)
  /\ selectedId' = None
  /\ UNCHANGED storeVars
  /\ onRegionsChange(TRUE)
  /\ UNCHANGED << isDrawing, pdfDimensions, currentRegion, tempRegion, dragStart,
                  resizeHandle, snapEnabled, clock, mouseDown >>

\* Snap button: setSnapEnabled(!snapEnabled)
ToggleSnap ==
  /\ CanvasMounted
  /\ snapEnabled' = ~snapEnabled
  /\ UNCHANGED storeVars
  /\ onRegionsChange(FALSE)
  /\ UNCHANGED << regions, isDrawing, pdfDimensions, currentRegion, tempRegion,
                  selectedId, dragStart, resizeHandle, clock, mouseDown >>

\* ------------------------------------------------------------- persistence

IsDraft(id) == id[1] = "temp"

\* Rows of earlier sessions: nothing, or two regions saved in drawing order,
\* the second one drawn small.
SeedRows ==
  { {},
    { [id |-> << "db", 1 >>, x |-> 200, y |-> 100, width |-> 200, height |-> 150,
       page_number |-> 1, order_index |-> 0],
      [id |-> << "db", 2 >>, x |-> 500, y |-> 400, width |-> 10, height |-> 16,
       page_number |-> 1, order_index |-> 1] } }

\* select('*').order('order_index'): the rows in ascending order_index; rows
\* with equal order_index come in any order
RECURSIVE OrderedSeqs(_)
OrderedSeqs(rows) ==
  IF rows = {} THEN { <<>> }
  ELSE LET least == { r \in rows : \A q \in rows : r.order_index <= q.order_index }
       IN UNION { { << r >> \o rest : rest \in OrderedSeqs(rows \ {r}) } : r \in least }

RowIds(rows) == { r.id : r \in rows }
SeqIds(rs) == { rs[i].id : i \in 1..Len(rs) }

\* regions.filter(r => !r.id.startsWith('temp-') && existingRegionsMap.has(r.id))
regionsToUpdate(rs, existing) ==
  SelectSeq(rs, LAMBDA r : ~IsDraft(r.id) /\ r.id \in RowIds(existing))
\* regions.filter(r => r.id.startsWith('temp-') || !existingRegionsMap.has(r.id))
regionsToInsert(rs, existing) ==
  SelectSeq(rs, LAMBDA r : IsDraft(r.id) \/ r.id \notin RowIds(existing))
\* a save that clears the table before it writes: every existing row deleted
regionsToDeleteAll(rs, existing) == existing

\* existingRegions.filter(r => !currentRegionIds.includes(r.id))
regionsToDelete(rs, existing) ==
  { e \in existing : e.id \notin { id \in SeqIds(rs) : ~IsDraft(id) } }

\* update({x, y, width, height, order_index}).eq('id', region.id), for each
\* region of regionsToUpdate
UpdateRows(rows, upd) ==
  { IF \E i \in 1..Len(upd) : upd[i].id = row.id
    THEN LET r == upd[CHOOSE i \in 1..Len(upd) : upd[i].id = row.id]
         IN [row EXCEPT !.x = r.x, !.y = r.y, !.width = r.width,
                        !.height = r.height, !.order_index = r.order_index]
    ELSE row : row \in rows }

\* insert(newRegions): order_index = regionsToUpdate.length + index
InsertRows(ins, base, firstId) ==
  { [id |-> << "db", firstId + k - 1 >>, x |-> ins[k].x, y |-> ins[k].y,
     width |-> ins[k].width, height |-> ins[k].height, page_number |-> 1,
     order_index |-> base + k - 1] : k \in 1..Len(ins) }

\* delete().eq('id', region.id), for each region of regionsToDelete
DeleteRows(rows, del) == { row \in rows : row.id \notin RowIds(del) }

\* ------------------------------------------------------------------ Editor

\* Draw Region / Stop Drawing button: setIsDrawing(!isDrawing)
ToggleDrawing ==
  /\ isDrawing' = ~isDrawing
  /\ UNCHANGED << regions, pdfDimensions, canvasVars, storeVars, editorVars >>

\* handlePdfLoadSuccess / updatePdfWidth: the page is measured or re-measured
SetPdfDimensions(d) ==
  /\ d # pdfDimensions
  /\ pdfDimensions' = d
  /\ UNCHANGED << regions, isDrawing, canvasVars, storeVars, editorVars >>

\* Save button: handleSaveRegions up to its first await.  With no regions it
\* returns at once ('No regions to save'); the invocation is then complete.
SaveStart ==
  /\ saves' = Append(saves, [ pc |-> IF Len(regions) = 0 THEN "returned" ELSE "select",
                              regions |-> regions, existing |-> {} ])
  /\ UNCHANGED << regions, isDrawing, pdfDimensions, canvasVars, db, nextDbId, loads,
                  editorVars >>

\* a click on Save while fewer than MaxSaves invocations are in flight
SaveClick == Len(saves) < MaxSaves /\ SaveStart

\* the select of the existing rows resolves
SaveSelect(i) ==
  /\ saves[i].pc = "select"
  /\ saves' = [saves EXCEPT ![i].pc = "write", ![i].existing = db]
  /\ UNCHANGED << regions, isDrawing, pdfDimensions, canvasVars, db, nextDbId, loads,
                  editorVars >>

\* the updates, the insert and the deletes, then setHasUnsavedChanges(false)
\* and the call of loadRegions()
SaveWrite(i) ==
  /\ saves[i].pc = "write"
  /\ LET sv == saves[i]
         upd == regionsToUpdate(sv.regions, sv.existing)
         ins == regionsToInsert(sv.regions, sv.existing)
         del == regionsToDelete(sv.regions, sv.existing)
     IN /\ db' = DeleteRows(UpdateRows(db, upd) \cup InsertRows(ins, Len(upd), nextDbId), del)
        /\ nextDbId' = nextDbId + Len(ins)
  /\ saves' = [saves EXCEPT ![i].pc = "saved"]
  /\ loads' = Append(loads, [ pc |-> "select", data |-> <<>> ])
  /\ hasUnsavedChanges' = FALSE
  /\ UNCHANGED << regions, isDrawing, pdfDimensions, canvasVars, selectedRegion, project >>

\* a completed invocation leaves
SaveReturn(i) ==
  /\ saves[i].pc \in {"returned", "saved"}
  /\ saves' = [k \in 1..(Len(saves) - 1) |-> IF k < i THEN saves[k] ELSE saves[k + 1]]
  /\ UNCHANGED << regions, isDrawing, pdfDimensions, canvasVars, db, nextDbId, loads,
                  editorVars >>

\* loadRegions: the select resolves with the rows in order_index order
LoadSelect(i) ==
  /\ loads[i].pc = "select"
  /\ \E data \in OrderedSeqs(db) : loads' = [loads EXCEPT ![i] = [pc |-> "data", data |-> data]]
  /\ UNCHANGED << regions, isDrawing, pdfDimensions, canvasVars, db, nextDbId, saves,
                  editorVars >>

\* loadRegions: if (data) setRegions(data)
LoadDone(i) ==
  /\ loads[i].pc = "data"
  /\ regions' = loads[i].data
  /\ loads' = [k \in 1..(Len(loads) - 1) |-> IF k < i THEN loads[k] ELSE loads[k + 1]]
  /\ UnsavedChangesEffect(TRUE)
  /\ UNCHANGED << isDrawing, pdfDimensions, canvasVars, db, nextDbId, saves,
                  selectedRegion, project >>

\* if (!project) return <Loading...>: the page, with the canvas and the
\* region list, is rendered once loadProject has resolved
EditorRendered == project # None

\* loadProject: the select resolves with the project row, setProject(data)
LoadProjectDone(published) ==
  /\ project = None
  /\ project' = Some([published |-> published])
  /\ UNCHANGED << regions, isDrawing, pdfDimensions, canvasVars, storeVars,
                  selectedRegion, hasUnsavedChanges >>

\* RegionManager: click on 'Region n' of the list, onSelectRegion(region.id)
SelectRegion(id) ==
  /\ EditorRendered /\ ~mouseDown /\ HasRegion(id)
  /\ selectedRegion' = Some(id)
  /\ UNCHANGED << regions, isDrawing, pdfDimensions, canvasVars, storeVars,
                  project, hasUnsavedChanges >>

\* -------------------------------------------------------------- PublicView
\* The viewer's pinch, pan and double-tap handlers.  scale is carried in
\* eighths (ScaleOne is the scale 1), which keeps the products of the
\* distance ratios of PinchLists exact.

ScaleOne == 8
MinScale == ScaleOne \div 2
MaxScale == 3 * ScaleOne
DoubleTapMs == 300

\* Math.hypot for the integral cases
Hypot(dx, dy) == CHOOSE h \in 0..(Abs(dx) + Abs(dy)) : h * h = dx * dx + dy * dy

\* e.touches of an event: clientX / clientY of each touch point down
TouchPoint(x, y) == [clientX |-> x, clientY |-> y]
SingleLists ==
  { << TouchPoint(100, 300) >>, << TouchPoint(200, 300) >>, << TouchPoint(260, 380) >> }
PinchLists ==
  { << TouchPoint(100, 300), TouchPoint(200, 300) >>,
    << TouchPoint(100, 300), TouchPoint(300, 300) >>,
    << TouchPoint(200, 200), TouchPoint(200, 400) >> }
TripleLists ==
  { << TouchPoint(100, 300), TouchPoint(200, 300), TouchPoint(200, 400) >> }
TouchLists == { << >> } \cup SingleLists \cup PinchLists \cup TripleLists
TapGaps == { 100, 400 }

TouchDistance(ts) ==
  Hypot(ts[1].clientX - ts[2].clientX, ts[1].clientY - ts[2].clientY)

ViewInit ==
  /\ view = [ scale |-> ScaleOne, panOffset |-> [x |-> 0, y |-> 0],
              touchStartDistance |-> 0, touchStartPan |-> [x |-> 0, y |-> 0],
              isPinching |-> FALSE, lastTapTime |-> 0, selectedRegion |-> None ]
  /\ touches = [ count |-> 0, pinched |-> FALSE, now |-> 1000 ]

\* handleTouchStart
TouchStart(ts) ==
  /\ Len(ts) = touches.count + 1
  /\ touches' = [touches EXCEPT !.count = Len(ts),
                                !.pinched = touches.pinched \/ Len(ts) >= 2]
  /\ view' = IF Len(ts) = 2
             THEN [view EXCEPT !.isPinching = TRUE,
                               !.touchStartDistance = TouchDistance(ts)]
             ELSE IF Len(ts) = 1 /\ view.scale > ScaleOne
             THEN [view EXCEPT !.touchStartPan =
                     [x |-> ts[1].clientX - view.panOffset.x,
                      y |-> ts[1].clientY - view.panOffset.y]]
             ELSE view

\* handleTouchMove
TouchMove(ts) ==
  /\ Len(ts) = touches.count /\ Len(ts) > 0
  /\ UNCHANGED touches
  /\ view' = IF Len(ts) = 2 /\ view.touchStartDistance # 0
             THEN LET distance == TouchDistance(ts)
                      newScale == (distance * view.scale) \div view.touchStartDistance
                      clampedScale == Max(MinScale, Min(MaxScale, newScale))
                  IN [view EXCEPT !.isPinching = TRUE,
                                  !.scale = clampedScale,
                                  !.touchStartDistance = distance]
             ELSE IF Len(ts) = 1 /\ view.scale > ScaleOne /\ ~view.isPinching
             THEN [view EXCEPT !.panOffset =
                     [x |-> ts[1].clientX - view.touchStartPan.x,
                      y |-> ts[1].clientY - view.touchStartPan.y]]
             ELSE view

\* handleTouchEnd; gap is the time since the previous touch event ended
TouchEnd(ts, gap) ==
  /\ Len(ts) = touches.count - 1
  /\ touches' = [touches EXCEPT !.count = Len(ts),
                                !.pinched = touches.pinched /\ Len(ts) > 0,
                                !.now = touches.now + gap]
  /\ LET now == touches.now + gap
         v1 == IF Len(ts) < 2
               THEN [view EXCEPT !.isPinching = FALSE, !.touchStartDistance = 0]
               ELSE view
         newScale == IF v1.scale = ScaleOne THEN 2 * ScaleOne ELSE ScaleOne
         v2 == IF now - v1.lastTapTime < DoubleTapMs
               THEN [v1 EXCEPT !.scale = newScale,
                               !.panOffset = IF newScale = ScaleOne
                                             THEN [x |-> 0, y |-> 0]
                                             ELSE v1.panOffset]
               ELSE v1
     IN view' = IF Len(ts) = 0 THEN [v2 EXCEPT !.lastTapTime = now] ELSE v1

\* the regions of the viewed page a tap can land on
ViewRegionIds == { << "db", 1 >>, << "db", 2 >> }

\* InteractiveRegions onRegionClick: setScale(1); setPanOffset({ x: 0, y: 0 });
\* setSelectedRegion(regionId), which opens the photo gallery
RegionClick(regionId) ==
  /\ touches.count = 0 /\ view.selectedRegion = None
  /\ UNCHANGED touches
  /\ view' = [view EXCEPT !.scale = ScaleOne, !.panOffset = [x |-> 0, y |-> 0],
                          !.selectedRegion = Some(regionId)]

\* PhotoGalleryModal onClose: setSelectedRegion(null); setScale(1);
\* setPanOffset({ x: 0, y: 0 })
GalleryClose ==
  /\ touches.count = 0 /\ view.selectedRegion # None
  /\ UNCHANGED touches
  /\ view' = [view EXCEPT !.scale = ScaleOne, !.panOffset = [x |-> 0, y |-> 0],
                          !.selectedRegion = None]

MaxTouchSteps == 7

HandleTouch(A) ==
  /\ steps < MaxTouchSteps /\ steps' = steps + 1 /\ A
  /\ UNCHANGED << regions, isDrawing, pdfDimensions, canvasVars, storeVars, editorVars,
                  snapCall, convCall >>

NextView ==
  \/ \E ts \in TouchLists : HandleTouch(TouchStart(ts))
  \/ \E ts \in TouchLists : HandleTouch(TouchMove(ts))
  \/ \E ts \in TouchLists : \E gap \in TapGaps : HandleTouch(TouchEnd(ts, gap))
  \/ \E regionId \in ViewRegionIds : HandleTouch(RegionClick(regionId))
  \/ HandleTouch(GalleryClose)

\* The Editor's own state once loadProject has resolved with a draft: nothing
\* selected in the list, nothing to republish.
DraftOpen ==
  /\ selectedRegion = None
  /\ project = Some([published |-> FALSE])
  /\ hasUnsavedChanges = FALSE

\* The editor is open on a project whose regions have been loaded and whose
\* page has been measured.
Init ==
  /\ db \in SeedRows
  /\ nextDbId = 3
  /\ regions \in OrderedSeqs(db)
  /\ saves = <<>>
  /\ loads = <<>>
  /\ isDrawing = FALSE
  /\ pdfDimensions \in PageSizes
  /\ currentRegion = None
  /\ tempRegion = None
  /\ selectedId = None
  /\ dragStart = None
  /\ resizeHandle = None
  /\ snapEnabled = TRUE
  /\ clock = 0
  /\ mouseDown = FALSE
  /\ steps = 0
  /\ snapCall = None
  /\ convCall = None
  /\ ViewInit
  /\ DraftOpen

\* One event is handled at a time (single UI thread); Handle counts it.
Handle(A) ==
  steps < MaxSteps /\ steps' = steps + 1 /\ UNCHANGED << snapCall, convCall, viewVars >> /\ A

Next ==
  \/ \E p \in Points : Handle(CanvasMouseDown(p))
  \/ \E i \in 1..Len(regions) : Handle(RegionMouseDown(regions[i].id))
  \/ \E i \in 1..Len(regions) : \E h \in ResizeHandles :
        Handle(ResizeStart(regions[i].id, h))
  \/ \E p \in Points : Handle(MouseMove(p))
  \/ \E over \in BOOLEAN : Handle(MouseUp(over))
  \/ \E i \in 1..Len(regions) : Handle(DeleteRegion(regions[i].id))
  \/ Handle(ToggleSnap)
  \/ Handle(ToggleDrawing)
  \/ \E d \in PageSizes : Handle(SetPdfDimensions(d))
  \/ Handle(SaveClick)
  \/ \E i \in 1..Len(saves) : Handle(SaveSelect(i))
  \/ \E i \in 1..Len(saves) : Handle(SaveWrite(i))
  \/ \E i \in 1..Len(saves) : Handle(SaveReturn(i))
  \/ \E i \in 1..Len(loads) : Handle(LoadSelect(i))
  \/ \E i \in 1..Len(loads) : Handle(LoadDone(i))

Spec == Init /\ [][Next]_vars

\* The viewer's touch handlers alone.
ViewSpec == Init /\ [][NextView]_vars

\* ------------------------------------------------- the canvas in isolation

\* Events in one behaviour of GestureSpec.
MaxGestureSteps == 6

\* Pointer positions of the draw scenarios: the corners of the 200 x 150 box
\* at (100,100), a point 6 px right of x = 200, a point 206 px right of
\* x = 300.
GesturePoints == { <<100, 100>>, <<300, 250>>, <<206, 150>>, <<506, 150>> }

\* The loaded list: empty, or one region in the page corner.
GestureSeedRows ==
  { {},
    { [id |-> << "db", 1 >>, x |-> 0, y |-> 0, width |-> 200, height |-> 100,
       page_number |-> 1, order_index |-> 0] } }

GestureInit ==
  /\ db \in GestureSeedRows
  /\ nextDbId = 2
  /\ regions \in OrderedSeqs(db)
  /\ saves = <<>>
  /\ loads = <<>>
  /\ isDrawing = FALSE
  /\ pdfDimensions \in PageSizes
  /\ currentRegion = None
  /\ tempRegion = None
  /\ selectedId = None
  /\ dragStart = None
  /\ resizeHandle = None
  /\ snapEnabled = TRUE
  /\ clock = 0
  /\ mouseDown = FALSE
  /\ steps = 0
  /\ snapCall = None
  /\ convCall = None
  /\ ViewInit
  /\ DraftOpen

HandleGesture(A) ==
  steps < MaxGestureSteps /\ steps' = steps + 1 /\ UNCHANGED << snapCall, convCall, viewVars >> /\ A

NextGesture ==
  \/ \E p \in GesturePoints : HandleGesture(CanvasMouseDown(p))
  \/ \E i \in 1..Len(regions) : HandleGesture(RegionMouseDown(regions[i].id))
  \/ \E i \in 1..Len(regions) : \E h \in ResizeHandles :
        HandleGesture(ResizeStart(regions[i].id, h))
  \/ \E p \in GesturePoints : HandleGesture(MouseMove(p))
  \/ \E over \in BOOLEAN : HandleGesture(MouseUp(over))
  \/ HandleGesture(ToggleSnap)
  \/ HandleGesture(ToggleDrawing)
  \/ \E d \in PageSizes : HandleGesture(SetPdfDimensions(d))

GestureSpec == GestureInit /\ [][NextGesture]_vars

\* ------------------------------------------ the canvas on the loaded list
\* The canvas handlers alone (no save, no reload) on the list of Init, with
\* the pointer positions of Points.

MaxEditSteps == 6

HandleEdit(A) ==
  steps < MaxEditSteps /\ steps' = steps + 1 /\ UNCHANGED << snapCall, convCall, viewVars >> /\ A

NextEdit ==
  \/ \E p \in Points : HandleEdit(CanvasMouseDown(p))
  \/ \E i \in 1..Len(regions) : HandleEdit(RegionMouseDown(regions[i].id))
  \/ \E i \in 1..Len(regions) : \E h \in ResizeHandles :
        HandleEdit(ResizeStart(regions[i].id, h))
  \/ \E p \in Points : HandleEdit(MouseMove(p))
  \/ \E over \in BOOLEAN : HandleEdit(MouseUp(over))
  \/ \E i \in 1..Len(regions) : HandleEdit(DeleteRegion(regions[i].id))
  \/ HandleEdit(ToggleSnap)
  \/ HandleEdit(ToggleDrawing)
  \/ \E d \in PageSizes : HandleEdit(SetPdfDimensions(d))

EditSpec == Init /\ [][NextEdit]_vars

\* ------------------------------------------------- draw, then save twice
\* The Save button is never disabled: a second click starts a second
\* handleSaveRegions while the first, or its reload, is still in flight.

MaxSaveSteps == 10
MaxConcurrentSaves == 2

SavePoints == { <<100, 100>>, <<390, 250>> }

HandleSave(A) ==
  steps < MaxSaveSteps /\ steps' = steps + 1 /\ UNCHANGED << snapCall, convCall, viewVars >> /\ A

NextSave ==
  \/ HandleSave(ToggleDrawing)
  \/ \E p \in SavePoints : HandleSave(CanvasMouseDown(p))
  \/ \E p \in SavePoints : HandleSave(MouseMove(p))
  \/ HandleSave(MouseUp(TRUE))
  \/ HandleSave(Len(saves) < MaxConcurrentSaves /\ SaveStart)
  \/ \E i \in 1..Len(saves) : HandleSave(SaveSelect(i))
  \/ \E i \in 1..Len(saves) : HandleSave(SaveWrite(i))
  \/ \E i \in 1..Len(saves) : HandleSave(SaveReturn(i))
  \/ \E i \in 1..Len(loads) : HandleSave(LoadSelect(i))
  \/ \E i \in 1..Len(loads) : HandleSave(LoadDone(i))

SaveSpec == Init /\ [][NextSave]_vars

\* ------------------------------------------------- the editor from its mount
\* The Editor right after its mount effect: loadProject() and loadRegions()
\* are both in flight, nothing is rendered, the page is not measured.  The
\* project row is a draft or a published project.

MaxOpenSteps == 9

OpenPageSize == [width |-> 794, height |-> 1000]

OpenPoints == { <<390, 250>> }

OpenInit ==
  /\ db \in SeedRows
  /\ nextDbId = 3
  /\ regions = <<>>
  /\ saves = <<>>
  /\ loads = << [ pc |-> "select", data |-> <<>> ] >>
  /\ isDrawing = FALSE
  /\ pdfDimensions = [width |-> 0, height |-> 0]
  /\ currentRegion = None
  /\ tempRegion = None
  /\ selectedId = None
  /\ dragStart = None
  /\ resizeHandle = None
  /\ snapEnabled = TRUE
  /\ clock = 0
  /\ mouseDown = FALSE
  /\ steps = 0
  /\ snapCall = None
  /\ convCall = None
  /\ ViewInit
  /\ selectedRegion = None
  /\ project = None
  /\ hasUnsavedChanges = FALSE

HandleOpen(A) ==
  steps < MaxOpenSteps /\ steps' = steps + 1 /\ UNCHANGED << snapCall, convCall, viewVars >> /\ A

\* an event on the rendered page
OnPage(A) == HandleOpen(EditorRendered /\ A)

NextOpen ==
  \/ \E published \in BOOLEAN : HandleOpen(LoadProjectDone(published))
  \/ \E i \in 1..Len(loads) : HandleOpen(LoadSelect(i))
  \/ \E i \in 1..Len(loads) : HandleOpen(LoadDone(i))
  \/ OnPage(SetPdfDimensions(OpenPageSize))
  \/ \E i \in 1..Len(regions) : HandleOpen(SelectRegion(regions[i].id))
  \/ \E i \in 1..Len(regions) : OnPage(RegionMouseDown(regions[i].id))
  \/ \E p \in OpenPoints : OnPage(MouseMove(p))
  \/ OnPage(MouseUp(TRUE))
  \/ \E i \in 1..Len(regions) : OnPage(DeleteRegion(regions[i].id))
  \/ OnPage(SaveClick)
  \/ \E i \in 1..Len(saves) : HandleOpen(SaveSelect(i))
  \/ \E i \in 1..Len(saves) : HandleOpen(SaveWrite(i))
  \/ \E i \in 1..Len(saves) : HandleOpen(SaveReturn(i))

OpenSpec == OpenInit /\ [][NextOpen]_vars

\* ------------------------------------------------- a drag in small moves
\* The drag handlers on the list of GestureInit (a region in the page
\* corner, its left edge on the page-edge snap target 0), with the pointer
\* advancing along the top edge in positions 6 px apart.

MaxDragSteps == 7

DragPoints == { <<0, 0>>, <<6, 0>>, <<12, 0>>, <<18, 0>>, <<24, 0>> }

HandleDrag(A) ==
  steps < MaxDragSteps /\ steps' = steps + 1 /\ UNCHANGED << snapCall, convCall, viewVars >> /\ A

NextDrag ==
  \/ \E i \in 1..Len(regions) : HandleDrag(RegionMouseDown(regions[i].id))
  \/ \E p \in DragPoints : HandleDrag(MouseMove(p))
  \/ \E over \in BOOLEAN : HandleDrag(MouseUp(over))
  \/ HandleDrag(ToggleSnap)

DragSpec == GestureInit /\ [][NextDrag]_vars

\* ------------------------------------------- the canvas before measurement
\* The editor as constructed: useState({ width: 0, height: 0 }) for the
\* measured page size; the page is measured later by handlePdfLoadSuccess.

MountInit ==
  /\ db \in GestureSeedRows
  /\ nextDbId = 2
  /\ regions \in OrderedSeqs(db)
  /\ saves = <<>>
  /\ loads = <<>>
  /\ isDrawing = FALSE
  /\ pdfDimensions = [width |-> 0, height |-> 0]
  /\ currentRegion = None
  /\ tempRegion = None
  /\ selectedId = None
  /\ dragStart = None
  /\ resizeHandle = None
  /\ snapEnabled = TRUE
  /\ clock = 0
  /\ mouseDown = FALSE
  /\ steps = 0
  /\ snapCall = None
  /\ convCall = None
  /\ ViewInit
  /\ DraftOpen

MountSpec == MountInit /\ [][NextGesture]_vars

\* ------------------------------------------------- SnapResolver in isolation

\* Proposed edge values (display pixels) handed to applySnap.
SnapPixels == { 0, 5, 95, 100, 210, 399, 405, 408, 506, 590, 790 }
SnapAxes == { "x", "y", "width", "height" }

\* applySnap(value, getSnapTargets(excludeId)[axis]), called directly
SnapCall(value, axis, excludeId) ==
  /\ LET targets == getSnapTargets(excludeId)[axis] IN
     snapCall' = Some([ value |-> value, axis |-> axis, targets |-> targets,
                        enabled |-> snapEnabled, page |-> pdfDimensions,
                        result |-> applySnap(value, targets),
                        again |-> applySnap(applySnap(value, targets), targets) ])
  /\ UNCHANGED << regions, isDrawing, pdfDimensions, canvasVars, storeVars, editorVars, steps,
                  convCall, viewVars >>

Quiet(A) == A /\ UNCHANGED << steps, snapCall, convCall, viewVars >>

NextSnap ==
  \/ \E v \in SnapPixels : \E axis \in SnapAxes :
       \E ex \in { None } \cup { Some(regions[i].id) : i \in 1..Len(regions) } :
         SnapCall(Disp(v), axis, ex)
  \/ Quiet(ToggleSnap)
  \/ \E d \in PageSizes : Quiet(SetPdfDimensions(d))

SnapSpec == Init /\ [][NextSnap]_vars

\* ------------------------------------------- CoordinateSpace in isolation

\* Display widths: one pixel, the minimum size, half, a width that does not
\* divide the authoring width, the authoring width, and two larger ones.
ConvWidths == { 1, 20, 397, 500, 794, 1000, 1588 }
ConvPageSizes ==
  { [width |-> w, height |-> (w * 1000) \div originalPdfWidth] : w \in ConvWidths }
\* Authoring values handed to the conversions.
ConvValues == { -794, -7, 0, 1, 3, 20, 100, 333, 794, 1000 }

ConvInit ==
  /\ db \in SeedRows
  /\ nextDbId = 3
  /\ regions \in OrderedSeqs(db)
  /\ saves = <<>>
  /\ loads = <<>>
  /\ isDrawing = FALSE
  /\ pdfDimensions \in ConvPageSizes
  /\ currentRegion = None
  /\ tempRegion = None
  /\ selectedId = None
  /\ dragStart = None
  /\ resizeHandle = None
  /\ snapEnabled = TRUE
  /\ clock = 0
  /\ mouseDown = FALSE
  /\ steps = 0
  /\ snapCall = None
  /\ convCall = None
  /\ ViewInit
  /\ DraftOpen

\* v * storedToDisplay, and that * displayToStored, at the current width
ConvCall(v) ==
  /\ convCall' = Some([ value |-> v, width |-> pdfWidth,
                        display |-> storedToDisplay(v),
                        back |-> displayToStored(storedToDisplay(v)) ])
  /\ UNCHANGED << regions, isDrawing, pdfDimensions, canvasVars, storeVars, editorVars, steps,
                  snapCall, viewVars >>

NextConv ==
  \/ \E v \in ConvValues : ConvCall(v)
  \/ \E d \in ConvPageSizes : Quiet(SetPdfDimensions(d))

ConvSpec == ConvInit /\ [][NextConv]_vars

\* ------------------------------------------------------------------ claims

NoGesture == currentRegion = None /\ dragStart = None /\ resizeHandle = None

MoveEvent == \E p \in Points : MouseMove(p)
UpEvent == \E over \in BOOLEAN : MouseUp(over)

InsidePage(r) ==
  /\ r.x >= 0 /\ r.y >= 0
  /\ r.x + r.width <= originalPdfWidth
  /\ r.y + r.height <= authoringHeight

RegionOk(r) == r.width >= MinSize /\ r.height >= MinSize /\ InsidePage(r)

\* C1 (as stated): after a drag or resize move, every region of the
\* collection has width >= 20, height >= 20 and lies inside the page.
C1_EveryRegionOkAfterMove ==
  [][ (MoveEvent /\ (dragStart # None \/ resizeHandle # None))
      => \A i \in 1..Len(regions') : RegionOk(regions'[i]) ]_vars

\* C1 (amended): a resize move leaves the resized region with width >= 20,
\* height >= 20 and inside the page, and a drag or resize move keeps every
\* region that satisfied this so; regions no resize has acted on keep
\* whatever size they were drawn with.
C1_ResizeEstablishesDragPreserves ==
  [][ MoveEvent =>
        /\ Len(regions') = Len(regions)
        /\ \A i \in 1..Len(regions) :
             /\ RegionOk(regions[i]) => RegionOk(regions'[i])
             /\ (resizeHandle # None /\ regions[i].id = The(resizeHandle).regionId)
                  => RegionOk(regions'[i]) ]_vars

\* C1 witness: a resize in progress has hit the floor of the width.
C1_Witness ==
  /\ resizeHandle # None
  /\ HasRegion(The(resizeHandle).regionId)
  /\ The(resizeHandle).originalRegion.width > displayToStored(Disp(MinSize))
  /\ RegionById(The(resizeHandle).regionId).width = displayToStored(Disp(MinSize))

ZeroArea(t) == t.width = 0 \/ t.height = 0

\* C2: a release over the canvas with a zero-area candidate rectangle
\* appends no region, and every region has width > 0 and height > 0.
C2_ZeroAreaDiscarded ==
  [][ (MouseUp(TRUE) /\ currentRegion # None /\ tempRegion # None
         /\ ZeroArea(The(tempRegion)))
      => regions' = regions ]_vars

\* C3: at most one of draw, drag and resize is in progress.
C3_OneGesture ==
  /\ ~(currentRegion # None /\ dragStart # None)
  /\ ~(currentRegion # None /\ resizeHandle # None)
  /\ ~(dragStart # None /\ resizeHandle # None)

\* C4: after any pointer release, over the canvas or outside it, no gesture
\* is active.
C4_ReleaseResolves == [][ UpEvent => NoGesture' ]_vars

\* C5: when the pointer leaves the canvas during a draw, the draw ends and
\* the candidate rectangle is discarded.
C5_LeaveCancelsDraw ==
  [][ (\E p \in Points : ~InPage(p) /\ MouseMove(p)) /\ currentRegion # None
      => (currentRegion' = None /\ tempRegion' = None) ]_vars

SameRect(a, b) == a.x = b.x /\ a.y = b.y /\ a.width = b.width /\ a.height = b.height

\* the persisted rows are what a save of the list rs over the rows `existing`
\* is to leave: the persisted regions of rs with their rectangles, one new row
\* per draft, and nothing else
SaveMatches(rows, rs, existing) ==
  LET kept == { i \in 1..Len(rs) : ~IsDraft(rs[i].id) /\ rs[i].id \in RowIds(existing) }
      drafts == { i \in 1..Len(rs) : IsDraft(rs[i].id) }
  IN /\ \A i \in kept : \E row \in rows : row.id = rs[i].id /\ SameRect(row, rs[i])
     /\ \A e \in existing : e.id \notin SeqIds(rs) => e.id \notin RowIds(rows)
     /\ Cardinality(rows) = Cardinality(kept) + Cardinality(drafts)
     /\ \A i \in drafts : \E row \in rows : row.id \notin RowIds(existing) /\ SameRect(row, rs[i])

\* C6: once a save has completed, the persisted rows match the in-memory
\* list it was given, the empty list included.
C6_SaveMatchesList ==
  \A i \in 1..Len(saves) :
    /\ saves[i].pc = "saved" => SaveMatches(db, saves[i].regions, saves[i].existing)
    /\ saves[i].pc = "returned" => SaveMatches(db, saves[i].regions, db)

\* C7: after a save the persisted order_index values are a permutation of
\* 0..n-1.
C7_OrderIndexPermutation ==
  \A i \in 1..Len(saves) : saves[i].pc = "saved" =>
    /\ { row.order_index : row \in db } = 0..(Cardinality(db) - 1)
    /\ \A a, b \in db : a.order_index = b.order_index => a = b

\* C8: no two regions of the in-memory collection have the same order_index.
C8_OrderIndexUnique ==
  \A i, j \in 1..Len(regions) : regions[i].order_index = regions[j].order_index => i = j

\* the candidate rectangle lies inside the displayed page
TempInPage(t) ==
  /\ t.x >= 0 /\ t.y >= 0
  /\ t.x + t.width <= Disp(pdfWidth)
  /\ t.y + t.height <= Disp(pdfHeight)

\* C9: a region committed by a draw whose pointer positions lie inside the
\* displayed page lies inside the page in authoring space.
C9_CommitInsidePage ==
  [][ (MouseUp(TRUE) /\ currentRegion # None /\ tempRegion # None
         /\ TempInPage(The(tempRegion)))
      => InsidePage(regions'[Len(regions')]) ]_vars

\* the first target of the list within the threshold of value, else value
FirstClose(value, targets) ==
  IF \E i \in 1..Len(targets) : Close(value, targets[i])
  THEN targets[CHOOSE i \in 1..Len(targets) :
                 /\ Close(value, targets[i])
                 /\ \A j \in 1..(i - 1) : ~Close(value, targets[j])]
  ELSE value

\* C10: with snapping enabled applySnap returns the first target in list
\* order within 10 display pixels of the value, or the value when there is
\* none; the page edges 0 and page size head the x and y target lists.
C10_FirstTargetWins ==
  snapCall # None =>
    LET c == The(snapCall) IN
    /\ c.enabled => c.result = FirstClose(c.value, c.targets)
    /\ c.axis = "x" => SubSeq(c.targets, 1, 2) = << 0, Disp(c.page.width) >>
    /\ c.axis = "y" => SubSeq(c.targets, 1, 2) = << 0, Disp(c.page.height) >>

\* C10 witness: two targets are within the threshold, the later one nearer,
\* and the earlier one is returned.
C10_Witness ==
  /\ snapCall # None
  /\ LET c == The(snapCall) IN
     /\ c.enabled
     /\ \E i, j \in 1..Len(c.targets) :
          /\ i < j
          /\ Close(c.value, c.targets[i]) /\ Close(c.value, c.targets[j])
          /\ Abs(c.value - c.targets[j]) < Abs(c.value - c.targets[i])
          /\ \A k \in 1..(i - 1) : ~Close(c.value, c.targets[k])
          /\ c.result = c.targets[i]

\* the targets of the call within the threshold of its value
CloseTargets(c) == { i \in 1..Len(c.targets) : Close(c.value, c.targets[i]) }

\* C11 (as stated): when several targets lie within the threshold, applySnap
\* returns the target nearest to the value.
C11_NearestWins ==
  snapCall # None =>
    LET c == The(snapCall) IN
    (c.enabled /\ Cardinality(CloseTargets(c)) >= 2)
      => \A i \in CloseTargets(c) : Abs(c.value - c.result) <= Abs(c.value - c.targets[i])

\* C11 (amended): when several targets lie within the threshold, applySnap
\* returns the one listed first, whether or not a later one is nearer.
C11_EarliestOfSeveralWins ==
  snapCall # None =>
    LET c == The(snapCall) IN
    (c.enabled /\ Cardinality(CloseTargets(c)) >= 2)
      => \E i \in CloseTargets(c) :
           /\ c.result = c.targets[i]
           /\ \A j \in CloseTargets(c) : i <= j

\* C11 witness: at scale 1:1, two sibling edges are within the threshold of
\* the value, the later one strictly nearer, and the earlier one is returned.
C11_Witness ==
  /\ snapCall # None
  /\ LET c == The(snapCall) IN
     /\ c.enabled /\ c.page.width = originalPdfWidth /\ c.axis = "x"
     /\ Cardinality(CloseTargets(c)) >= 2
     /\ \E i \in CloseTargets(c) :
          /\ i > 2
          /\ c.result = c.targets[i]
          /\ \A j \in CloseTargets(c) : i <= j
          /\ \E j \in CloseTargets(c) :
               Abs(c.value - c.targets[j]) < Abs(c.value - c.targets[i])

\* The edges an edge may snap to along one axis, as the specification lists
\* them: the page edges, then both edges of every other region, each with
\* its authoring coordinate and its position in display space.
RECURSIVE SiblingEdges(_, _, _, _)
SiblingEdges(rs, excludeId, pos, size) ==
  IF rs = <<>> THEN <<>>
  ELSE (IF Some(Head(rs).id) # excludeId
        THEN << [stored |-> Head(rs)[pos], display |-> storedToDisplay(Head(rs)[pos])],
                [stored |-> Head(rs)[pos] + Head(rs)[size],
                 display |-> storedToDisplay(Head(rs)[pos] + Head(rs)[size])] >>
        ELSE <<>>) \o SiblingEdges(Tail(rs), excludeId, pos, size)

EdgesX(excludeId) ==
  << [stored |-> 0, display |-> storedToDisplay(0)],
     [stored |-> originalPdfWidth, display |-> storedToDisplay(originalPdfWidth)] >>
  \o SiblingEdges(regions, excludeId, "x", "width")

EdgesY(excludeId) ==
  << [stored |-> 0, display |-> storedToDisplay(0)],
     [stored |-> authoringHeight, display |-> storedToDisplay(authoringHeight)] >>
  \o SiblingEdges(regions, excludeId, "y", "height")

\* the left edge `left` (display space) is within the threshold of the k-th
\* edge, a sibling's, and of no earlier one
SnapsToSibling(left, edges, k) ==
  /\ k > 2
  /\ Close(left, edges[k].display)
  /\ \A j \in 1..(k - 1) : ~Close(left, edges[j].display)

DrawCommit == MouseUp(TRUE) /\ currentRegion # None /\ tempRegion # None
DragMove == MoveEvent /\ resizeHandle = None /\ dragStart # None
           /\ HasRegion(The(dragStart).regionId)

\* the proposed left edge of the dragged region, in display space
DragLeft(p) ==
  storedToDisplay(RegionById(The(dragStart).regionId).x
                  + displayToStored(Disp(p[1]) - The(dragStart).x))

\* C12: with snapping on, when the left edge of a drawn or dragged region is
\* within 10 display pixels of the display position of a sibling's vertical
\* edge and of no earlier target, the resulting authoring x is that sibling
\* edge (for a drag: when the page clamp allows it).
C12_LeftEdgeSnapsToSibling ==
  [][ /\ (DrawCommit /\ snapEnabled) =>
           \A k \in 1..Len(EdgesX(None)) :
             SnapsToSibling(The(tempRegion).x, EdgesX(None), k)
               => regions'[Len(regions')].x = EdgesX(None)[k].stored
      /\ \A p \in Points :
           (MouseMove(p) /\ DragMove /\ snapEnabled) =>
             LET id == The(dragStart).regionId
                 edges == EdgesX(Some(id))
                 r == RegionById(id)
             IN \A k \in 1..Len(edges) :
                  ( /\ SnapsToSibling(DragLeft(p), edges, k)
                    /\ edges[k].stored + r.width <= originalPdfWidth )
                  => \E i \in 1..Len(regions') :
                       regions'[i].id = id /\ regions'[i].x = edges[k].stored ]_vars

\* no edge of the candidate rectangle t is within the threshold of a page
\* edge or of a sibling's edge, in display space
NoEdgeNear(t) ==
  /\ \A k \in 1..Len(EdgesX(None)) :
       /\ ~Close(t.x, EdgesX(None)[k].display)
       /\ ~Close(t.x + t.width, EdgesX(None)[k].display)
  /\ \A k \in 1..Len(EdgesY(None)) :
       /\ ~Close(t.y, EdgesY(None)[k].display)
       /\ ~Close(t.y + t.height, EdgesY(None)[k].display)

\* C13: a draw whose candidate rectangle has non-zero area and no edge
\* within the threshold of a page edge or a sibling edge appends exactly one
\* region: the candidate converted to authoring space, with a draft id,
\* page 1 and order_index = the previous count; the others are unchanged.
C13_PlainDrawAppendsCandidate ==
  [][ (DrawCommit /\ ~ZeroArea(The(tempRegion)) /\ NoEdgeNear(The(tempRegion)))
      => LET t == The(tempRegion) IN
         /\ Len(regions') = Len(regions) + 1
         /\ SubSeq(regions', 1, Len(regions)) = regions
         /\ LET n == regions'[Len(regions')] IN
            /\ IsDraft(n.id)
            /\ n.x = displayToStored(t.x) /\ n.y = displayToStored(t.y)
            /\ n.width = displayToStored(t.width)
            /\ n.height = displayToStored(t.height)
            /\ n.page_number = 1
            /\ n.order_index = Len(regions) ]_vars

\* C14: after every drag move event the dragged region has
\* x in [0, authoringWidth - width] and y in [0, authoringHeight - height].
C14_DragClamped ==
  [][ DragMove =>
        \A i \in 1..Len(regions') :
          regions'[i].id = The(dragStart).regionId =>
            /\ 0 <= regions'[i].x
            /\ regions'[i].x <= originalPdfWidth - regions'[i].width
            /\ 0 <= regions'[i].y
            /\ regions'[i].y <= authoringHeight - regions'[i].height ]_vars

ResizeMove == MoveEvent /\ resizeHandle # None
              /\ HasRegion(The(resizeHandle).regionId)

\* handleResize up to the switch: the captured rectangle with the delta of
\* the pointer position p applied
SwitchedRegion(p) ==
  LET h == The(resizeHandle) IN
  ResizeSwitch(h.originalRegion, h.handle,
               displayToStored(Disp(p[1]) - h.startX),
               displayToStored(Disp(p[2]) - h.startY))

\* handleResize up to the snap, before the constraint to the page
SnappedRegion(p) ==
  ResizeSnap(SwitchedRegion(p), getSnapTargets(Some(The(resizeHandle).regionId)))

\* C15: a resize whose delta takes a width (a height) of at least 20 below
\* the floor yields a width (a height) of exactly 20 authoring units.
C15_FloorIsTwentyUnits ==
  [][ \A p \in Points :
        (MouseMove(p) /\ ResizeMove) =>
          \A i \in 1..Len(regions') :
            regions'[i].id = The(resizeHandle).regionId =>
              LET orig == The(resizeHandle).originalRegion IN
              /\ ( /\ orig.width >= MinSize
                   /\ SwitchedRegion(p).width < MinSize
                   /\ SnappedRegion(p).width < MinSize )
                   => regions'[i].width = MinSize
              /\ ( /\ orig.height >= MinSize
                   /\ SwitchedRegion(p).height < MinSize
                   /\ SnappedRegion(p).height < MinSize )
                   => regions'[i].height = MinSize ]_vars

\* the captured rectangle is not smaller than the floor handleResize
\* enforces and lies inside the page
WellFormed(r) ==
  /\ r.width >= displayToStored(Disp(MinSize))
  /\ r.height >= displayToStored(Disp(MinSize))
  /\ InsidePage(r)

\* C16: during a resize only the fields implied by the handle differ from
\* the captured rectangle: e, s, se leave x and y; n, s leave x and width;
\* e, w leave y and height (stated for a captured rectangle that is at least
\* the minimum size and inside the page, so that the floor plays no part).
C16_ResizeFrame ==
  [][ (ResizeMove /\ WellFormed(The(resizeHandle).originalRegion)) =>
        LET h == The(resizeHandle)
            orig == h.originalRegion
        IN \A i \in 1..Len(regions') :
             regions'[i].id = h.regionId =>
               /\ h.handle \in {"e", "s", "se"}
                    => (regions'[i].x = orig.x /\ regions'[i].y = orig.y)
               /\ h.handle \in {"n", "s"}
                    => (regions'[i].x = orig.x /\ regions'[i].width = orig.width)
               /\ h.handle \in {"e", "w"}
                    => (regions'[i].y = orig.y /\ regions'[i].height = orig.height) ]_vars

\* the region a draw from P to Q commits in the current state
DrawResult(P, Q) == NewRegionOf(TempOf(StartOf(P), Q))

\* the candidate of the reverse draw: started at the pointer position Q and
\* moved to the start point c of the draw in progress
ReverseTemp(c, Q) ==
  [ x      |-> Min(StartOf(Q).startX, c.startX),
    y      |-> Min(StartOf(Q).startY, c.startY),
    width  |-> Abs(c.startX - StartOf(Q).startX),
    height |-> Abs(c.startY - StartOf(Q).startY) ]

\* C17: with the same regions, display width and snap setting, a draw from
\* P to Q and a draw from Q to P commit the same rectangle; the candidate has
\* x = min of the two x values, width = their absolute difference, and the
\* same for y and height; and the candidate a move leaves is the one the
\* reverse draw would have.
C17_DirectionIndependent ==
  [][ /\ \A P, Q \in GesturePoints :
           /\ SameRect(DrawResult(P, Q), DrawResult(Q, P))
           /\ TempOf(StartOf(P), Q) =
                [ x |-> Disp(Min(P[1], Q[1])), y |-> Disp(Min(P[2], Q[2])),
                  width |-> Disp(Abs(P[1] - Q[1])), height |-> Disp(Abs(P[2] - Q[2])) ]
      /\ \A Q \in GesturePoints :
           (MouseMove(Q) /\ currentRegion # None /\ CanvasActive /\ InPage(Q))
             => tempRegion' = Some(ReverseTemp(The(currentRegion), Q)) ]_vars

\* C17 witness: Scenario F, a draw from (300,250) up-left to (100,100) on an
\* empty page at scale 1:1 is about to commit (100, 100, 200, 150).
C17_Witness ==
  /\ currentRegion # None /\ tempRegion # None
  /\ regions = <<>> /\ pdfWidth = originalPdfWidth
  /\ The(tempRegion).x < The(currentRegion).startX
  /\ The(tempRegion).y < The(currentRegion).startY
  /\ The(tempRegion) = TempOf(The(currentRegion), << 100, 100 >>)
  /\ SameRect(NewRegion, [x |-> 100, y |-> 100, width |-> 200, height |-> 150])

\* handleResize computed with no snap targets: the switch, x and y kept
\* non-negative, the constraint to the page
ResizedPlain(p) ==
  LET r == SwitchedRegion(p) IN
  ResizeConstrain([r EXCEPT !.x = Max(0, r.x), !.y = Max(0, r.y)])

\* handleRegionDrag computed with no snap targets
DraggedPlain(r, p) ==
  [r EXCEPT
     !.x = Max(0, Min(originalPdfWidth - r.width,
                      r.x + displayToStored(Disp(p[1]) - The(dragStart).x))),
     !.y = Max(0, Min(authoringHeight - r.height,
                      r.y + displayToStored(Disp(p[2]) - The(dragStart).y)))]

\* C18: with snapping disabled applySnap returns its value for every target
\* list, and draw, drag and resize give the results computed with no snap
\* targets.
C18_DisabledSnapIsIdentity ==
  [][ ~snapEnabled =>
        /\ \A v \in SnapPixels : \A axis \in SnapAxes :
             \A ex \in { None } \cup { Some(regions[i].id) : i \in 1..Len(regions) } :
               applySnap(Disp(v), getSnapTargets(ex)[axis]) = Disp(v)
        /\ DrawCommit =>
             LET t == The(tempRegion)
                 n == regions'[Len(regions')]
             IN /\ Len(regions') = Len(regions) + 1
                /\ SameRect(n, [x |-> displayToStored(t.x), y |-> displayToStored(t.y),
                                width |-> displayToStored(t.width),
                                height |-> displayToStored(t.height)])
        /\ \A p \in GesturePoints :
             (MouseMove(p) /\ resizeHandle = None /\ dragStart # None) =>
               \A i \in 1..Len(regions) :
                 regions'[i] = IF regions[i].id = The(dragStart).regionId
                               THEN DraggedPlain(regions[i], p) ELSE regions[i]
        /\ \A p \in GesturePoints :
             (MouseMove(p) /\ resizeHandle # None) =>
               \A i \in 1..Len(regions) :
                 regions'[i] = IF regions[i].id = The(resizeHandle).regionId
                               THEN ResizedPlain(p) ELSE regions[i] ]_vars

\* C18 witness: with snapping disabled, at scale 1:1, a drawn region stays
\* 6 px off a sibling's right edge (x = 206 next to the edge at 200).
C18_Witness ==
  /\ ~snapEnabled /\ pdfWidth = originalPdfWidth
  /\ \E i, j \in 1..Len(regions) :
       /\ IsDraft(regions[i].id) /\ regions[i].x = 206
       /\ ~IsDraft(regions[j].id) /\ regions[j].x + regions[j].width = 200

ScaledBy(rect, r, w) ==
  /\ rect.left = (Disp(r.x) * w) \div originalPdfWidth
  /\ rect.top = (Disp(r.y) * w) \div originalPdfWidth
  /\ rect.width = (Disp(r.width) * w) \div originalPdfWidth
  /\ rect.height = (Disp(r.height) * w) \div originalPdfWidth
  /\ rect.left * r.width = rect.width * r.x
  /\ rect.top * r.height = rect.height * r.y
  /\ rect.left * r.y = rect.top * r.x

C20_ShownScaled ==
  /\ \A i \in 1..Len(regions) : ScaledBy(RenderedRect(regions[i]), regions[i], pdfWidth)
  /\ \A i \in 1..Len(regions) : \A d \in PageSizes :
       /\ ScaledBy(InteractiveRegionRect(regions[i], d.width), regions[i], d.width)
       /\ d.width = pdfWidth =>
            InteractiveRegionRect(regions[i], d.width) = RenderedRect(regions[i])

C20_WidthChangeKeepsStored ==
  \A d \in PageSizes : SetPdfDimensions(d) => (regions' = regions /\ db' = db)

\* C20: every region is shown at its stored rectangle multiplied by the one
\* factor Wd / W0 in x, y, width and height, by the editor overlay and by the
\* viewer alike, and a change of the display width changes no stored
\* coordinate.
C20_UniformScale == [] C20_ShownScaled /\ [][ C20_WidthChangeKeepsStored ]_vars

\* C20 witness: a region drawn at 1:1 from x = 206 is shown at half size
\* after the page has been re-measured to half the authoring width.
C20_Witness ==
  /\ pdfWidth * 2 = originalPdfWidth
  /\ \E i \in 1..Len(regions) :
       /\ IsDraft(regions[i].id) /\ regions[i].x = 206
       /\ RenderedRect(regions[i]).left * 2 = Disp(206)
       /\ RenderedRect(regions[i]).width * 2 = Disp(regions[i].width)

\* ---------------------------------------------------------------------- C21
\* C21: while the measured display width is 0 no draw, drag or resize can
\* act: every step taken from a state of width 0 leaves the region
\* collection and the whole gesture state of the canvas as they were.
C21_UnmeasuredFrozen ==
  [][ pdfWidth = 0 =>
        /\ regions' = regions
        /\ UNCHANGED << currentRegion, tempRegion, selectedId, dragStart,
                        resizeHandle, mouseDown >> ]_vars

\* the page is unmeasured, regions are loaded, draw mode has been switched
\* on: the canvas would take pointer events if it were mounted
C21_Witness ==
  /\ pdfWidth = 0 /\ isDrawing /\ Len(regions) > 0 /\ steps >= 1
  /\ regions[1].width = 200

\* ---------------------------------------------------------------------- C22
\* the pointer position p lies on no rendered region
OnEmptySpace(p) ==
  \A i \in 1..Len(regions) :
    LET b == RenderedRect(regions[i]) IN
      \/ Disp(p[1]) < b.left \/ Disp(p[1]) > b.left + b.width
      \/ Disp(p[2]) < b.top \/ Disp(p[2]) > b.top + b.height

\* C22: after a pointer-down on empty canvas space, and after draw mode is
\* switched on, no region is selected.
C22_EmptyDownAndDrawModeDeselect ==
  [][ ( \/ \E p \in Points : OnEmptySpace(p) /\ CanvasMouseDown(p)
        \/ ToggleDrawing /\ isDrawing' )
      => selectedId' = None ]_vars

\* ---------------------------------------------------------------------- C23
\* C23: deleting a region by id removes exactly that region: the list after
\* the delete is the list before it with the one entry taken out, every
\* other region with all its fields (order_index included) and in the same
\* relative order.
C23_DeleteRemovesExactlyOne ==
  [][ \A i \in 1..Len(regions) :
        DeleteRegion(regions[i].id) =>
          regions' = [k \in 1..(Len(regions) - 1) |->
                        IF k < i THEN regions[k] ELSE regions[k + 1]] ]_vars

\* the first of the two loaded regions has been deleted; the second is left
\* with order_index 1
C23_Witness ==
  /\ Len(regions) = 1 /\ regions[1].id = << "db", 2 >>
  /\ regions[1].order_index = 1 /\ regions[1].width = 10
  /\ selectedId = None

\* ---------------------------------------------------------------------- C24
\* C24: in the viewer, once a second touch point has been down, a move of
\* the one touch point that remains changes neither the pan offset nor the
\* scale (until every touch point is released); and a move with two or more
\* touch points never changes the pan offset.
C24_PinchRemainderIgnored ==
  [][ \A ts \in TouchLists :
        TouchMove(ts) =>
          /\ (touches.pinched /\ Len(ts) = 1) =>
               (view'.panOffset = view.panOffset /\ view'.scale = view.scale)
          /\ Len(ts) >= 2 => view'.panOffset = view.panOffset ]_vars

\* ---------------------------------------------------------------------- C25
\* a pointer-down of any kind
DownEvent ==
  \/ \E p \in Points : CanvasMouseDown(p)
  \/ \E i \in 1..Len(regions) : RegionMouseDown(regions[i].id)
  \/ \E i \in 1..Len(regions) : \E h \in ResizeHandles : ResizeStart(regions[i].id, h)

\* C25: a pointer-down sets the start point of a draw only if draw mode is
\* on at that moment; a pointer-down on a region body starts a drag only if
\* draw mode is off, and in draw mode it starts a draw at the pointer and
\* selects and drags nothing.
C25_ModeDecidesGesture ==
  [][ /\ (DownEvent /\ currentRegion' # currentRegion) => isDrawing
      /\ \A i \in 1..Len(regions) :
           RegionMouseDown(regions[i].id) =>
             /\ dragStart' # dragStart => ~isDrawing
             /\ ~isDrawing => dragStart' # None /\ currentRegion' = currentRegion
             /\ isDrawing =>
                  /\ currentRegion' # None
                  /\ dragStart' = dragStart /\ selectedId' = selectedId ]_vars

\* in draw mode the pointer went down on the body of the loaded region at
\* (200,100): a draw has started at its corner and nothing is dragged
C25_Witness ==
  /\ isDrawing /\ mouseDown /\ dragStart = None /\ selectedId = None
  /\ currentRegion = Some([startX |-> storedToDisplay(200), startY |-> storedToDisplay(100)])

\* ---------------------------------------------------------------------- C26
\* the rows the saves have inserted: every row that was not loaded at Init
InsertedRows == { row \in db : row.id \notin { << "db", 1 >>, << "db", 2 >> } }

\* C26: however two save invocations on the same in-memory list interleave,
\* no draft is inserted twice: the table never holds more inserted rows than
\* drafts have been drawn (clock counts the committed draws).
C26_NoDraftInsertedTwice == Cardinality(InsertedRows) <= clock

\* ---------------------------------------------------------------------- C27
\* C27: the pointer-up that ends a drag or a resize changes no coordinate:
\* the region collection after the release is the collection the last move
\* left (the pre-gesture collection if there was no move).
C27_ReleaseKeepsCollection ==
  [][ (UpEvent /\ (dragStart # None \/ resizeHandle # None)) => regions' = regions ]_vars

\* ---------------------------------------------------------------------- C28
\* C28: the rectangle of a resize move is a function of the captured
\* original rectangle, the handle, the pointer position, the siblings and
\* the display width: a resize move to p leaves the resized region at the
\* rectangle computed from the captured rectangle for p, and changes none of
\* what that computation reads (the capture, the siblings, the page size,
\* the snap toggle),
\* so every sequence of moves that ends at p leaves the same rectangle.
C28_ResizePathIndependent ==
  [][ \A p \in Points :
        (MouseMove(p) /\ resizeHandle # None /\ HasRegion(The(resizeHandle).regionId)) =>
          /\ RegionById(The(resizeHandle).regionId)' = ResizeConstrain(SnappedRegion(p))
          /\ resizeHandle' = resizeHandle /\ pdfDimensions' = pdfDimensions
          /\ snapEnabled' = snapEnabled /\ Len(regions') = Len(regions)
          /\ \A i \in 1..Len(regions) :
               regions[i].id # The(resizeHandle).regionId => regions'[i] = regions[i] ]_vars

\* a resize of the loaded 200 x 150 region by its south-east handle is under
\* way, at least two events after its start, and the region has a new width
\* and a new height
C28_Witness ==
  /\ resizeHandle # None /\ steps >= 5
  /\ The(resizeHandle).handle = "se"
  /\ The(resizeHandle).originalRegion.width = 200
  /\ HasRegion(The(resizeHandle).regionId)
  /\ RegionById(The(resizeHandle).regionId).width # 200
  /\ RegionById(The(resizeHandle).regionId).height # 150

\* ---------------------------------------------------------------------- C29
\* the move to p of the dragged region r engages no page-bound clamp
DragUnclamped(r, p) ==
  LET d == The(dragStart)
      newX == r.x + displayToStored(Disp(p[1]) - d.x)
      newY == r.y + displayToStored(Disp(p[2]) - d.y)
  IN /\ newX >= 0 /\ newX <= originalPdfWidth - r.width
     /\ newY >= 0 /\ newY <= authoringHeight - r.height

\* C29: with snapping disabled and no clamp engaged, every drag move keeps
\* the offset between the region's position and the pointer position scaled
\* by W0/Wd (here: the display position minus the pointer), and records the
\* pointer as the new reference: after any sequence of such moves the
\* position is the position at gesture start plus (current pointer - start
\* pointer) x W0/Wd, however the motion was split.
C29_DragFollowsPointer ==
  [][ \A p \in Points :
        ( /\ MouseMove(p) /\ resizeHandle = None /\ dragStart # None
          /\ HasRegion(The(dragStart).regionId) /\ ~snapEnabled
          /\ DragUnclamped(RegionById(The(dragStart).regionId), p) ) =>
        LET id == The(dragStart).regionId
            r == RegionById(id)
        IN /\ The(dragStart').x = Disp(p[1]) /\ The(dragStart').y = Disp(p[2])
           /\ storedToDisplay(RegionById(id)'.x) - The(dragStart').x
                = storedToDisplay(r.x) - The(dragStart).x
           /\ storedToDisplay(RegionById(id)'.y) - The(dragStart').y
                = storedToDisplay(r.y) - The(dragStart).y ]_vars

\* Wd = 397, snapping is off and the loaded 10 x 16 region, grabbed at its
\* corner, has been dragged to the pointer at (390,250): it sits at
\* (780,500), the pointer times W0/Wd (with snapping on the move would have
\* snapped it to the page edge)
C29_Witness ==
  /\ pdfWidth = 397 /\ ~snapEnabled /\ dragStart # None /\ resizeHandle = None
  /\ steps >= 4
  /\ The(dragStart).regionId = << "db", 2 >> /\ HasRegion(<< "db", 2 >>)
  /\ The(dragStart).x = Disp(390) /\ The(dragStart).y = Disp(250)
  /\ RegionById(<< "db", 2 >>).x = 780 /\ RegionById(<< "db", 2 >>).y = 500

\* ---------------------------------------------------------------------- C30
\* C30: a drag move changes only the x and y of the dragged region: its
\* other fields, every other region, and the number and order of regions
\* stay as they were.
C30_DragFrame ==
  [][ DragMove =>
        /\ Len(regions') = Len(regions)
        /\ \A i \in 1..Len(regions) :
             IF regions[i].id = The(dragStart).regionId
             THEN regions'[i] = [regions[i] EXCEPT !.x = regions'[i].x, !.y = regions'[i].y]
             ELSE regions'[i] = regions[i] ]_vars

\* the first loaded region is being dragged and has moved on both axes; it
\* has its size, id and order_index, and the second region is untouched
C30_Witness ==
  /\ dragStart # None /\ The(dragStart).regionId = << "db", 1 >>
  /\ Len(regions) = 2 /\ regions[1].id = << "db", 1 >>
  /\ regions[1].x # 200 /\ regions[1].y # 100
  /\ regions[1].width = 200 /\ regions[1].height = 150 /\ regions[1].order_index = 0
  /\ regions[2].id = << "db", 2 >> /\ regions[2].x = 500 /\ regions[2].order_index = 1

\* ---------------------------------------------------------------------- C31
\* C31: a save keeps the identity of every persisted region of its list: a
\* row that is in the table when the save writes, and whose id is in the
\* list the save was given, is in the table afterwards under the same id,
\* with the rectangle of the list's region if the save saw it in its select.
C31_SaveKeepsIdentity ==
  [][ \A i \in 1..Len(saves) :
        SaveWrite(i) =>
          \A k \in 1..Len(saves[i].regions) :
            LET r == saves[i].regions[k] IN
            (r.id \in RowIds(db)) =>
              \E row \in db' :
                /\ row.id = r.id
                /\ r.id \in RowIds(saves[i].existing) => SameRect(row, r) ]_vars

\* a save has written after the first loaded region was dragged: its row
\* is still row 1 and carries the new position
C31_Witness ==
  /\ \E i \in 1..Len(saves) : saves[i].pc = "saved"
  /\ \E row \in db : row.id = << "db", 1 >> /\ row.x # 200 /\ row.width = 200
  /\ \E row \in db : row.id = << "db", 2 >>
  /\ Cardinality(db) = 2

\* ---------------------------------------------------------------------- C32
\* C32: with snapping disabled a resize move keeps the edge opposite the
\* handle where the captured rectangle has it: the right edge for the
\* handles w, nw, sw, the bottom edge for the handles n, nw, ne.
C32_OppositeEdgeFixed ==
  [][ (ResizeMove /\ ~snapEnabled) =>
        LET h == The(resizeHandle)
            orig == h.originalRegion
            r == RegionById(h.regionId)'
        IN /\ h.handle \in {"w", "nw", "sw"} => r.x + r.width = orig.x + orig.width
           /\ h.handle \in {"n", "nw", "ne"} => r.y + r.height = orig.y + orig.height ]_vars

\* ---------------------------------------------------------------------- C33
\* the rectangles of a list
RectsOf(rs) ==
  { [x |-> rs[i].x, y |-> rs[i].y, width |-> rs[i].width, height |-> rs[i].height] :
      i \in 1..Len(rs) }

\* C33: saving loses no edit: when the reload of a save completes, the
\* in-memory collection still holds the rectangles it held just before (the
\* drafts under their new ids): nothing drawn, moved, resized or deleted
\* since the save started is undone.
C33_ReloadKeepsEdits ==
  [][ \A i \in 1..Len(loads) : LoadDone(i) => RectsOf(regions') = RectsOf(regions) ]_vars

\* ---------------------------------------------------------------------- C34
\* C34: no region is appended while draw mode is off: every step of the
\* canvas that lengthens the collection is taken in a state with draw mode on.
C34_AppendOnlyInDrawMode ==
  [][ Len(regions') > Len(regions) => isDrawing ]_vars

\* ---------------------------------------------------------------------- C35
\* C35: a region held at a snap target can be dragged away in small moves.
\* The pointer grabbed the region at its left edge; a move of less than the
\* threshold to the right, with snapping on, that takes the pointer more
\* than the threshold beyond the page-edge target 0 the region's left edge
\* is held at, moves the region off that target.
C35_SnapReleases ==
  [][ \A p \in DragPoints :
        ( /\ MouseMove(p) /\ resizeHandle = None /\ dragStart # None
          /\ HasRegion(The(dragStart).regionId) /\ snapEnabled
          /\ RegionById(The(dragStart).regionId).x = 0
          /\ Disp(p[1]) > The(dragStart).x
          /\ Disp(p[1]) - The(dragStart).x < Disp(SNAP_THRESHOLD)
          /\ Disp(p[1]) > Disp(SNAP_THRESHOLD) ) =>
        RegionById(The(dragStart).regionId)'.x # 0 ]_vars

Selects(sel) == sel # None => HasRegion(The(sel))

\* C37: the canvas selectedId and the Editor's selectedRegion are each null
\* or the id of a region of the in-memory list, in every reachable state.
C37_SelectionInList == Selects(selectedId) /\ Selects(selectedRegion)

\* C38: in a published project the completion of a load of the regions (the
\* initial load or the reload after a save) does not raise
\* hasUnsavedChanges: the flag stays false when it was false, whichever of
\* the project load and the region load completes first.
C38_LoadKeepsSaved ==
  [][ \A i \in 1..Len(loads) :
        (LoadDone(i) /\ project # None /\ The(project).published /\ ~hasUnsavedChanges)
          => ~hasUnsavedChanges' ]_vars

\* C39: in the viewer the pan offset is (0, 0) in every reachable state whose
\* zoom scale is at most 1.
C39_NoPanAtRest == view.scale <= ScaleOne => view.panOffset = [x |-> 0, y |-> 0]

====
